---- MODULE Spec2Model ----
(***************************************************************************)
(* Model of streamlit_odi_report.py: the tolerant JSON extraction          *)
(* (parse_model_json), the column validation and auto-correction, the      *)
(* pandas aggregation, and the control flow of one script run.             *)
(*                                                                         *)
(* Spec is the file as it is: it does not compile, and every run ends at   *)
(* compilation.  SpecParse, SpecMain and SpecAgg are parse_model_json, the *)
(* Main Processing block and its Prepare Data part, each as a function of  *)
(* its inputs.                                                             *)
(*                                                                         *)
(* Text is a sequence of one-character strings, so that find, rfind,       *)
(* split, strip, lower and the substring tests are computed as Python      *)
(* computes them.                                                          *)
(***************************************************************************)
EXTENDS Integers, Sequences, FiniteSets, TLC

(***************************************************************************)
(* Python str operations used by the script.                               *)
(***************************************************************************)

\* Characters str.strip() removes and json skips (the modelled alphabet holds
\* no whitespace outside these four).
Whitespace == {" ", "\n", "\t", "\r"}

DigitChars == {"0", "1", "2", "3", "4", "5", "6", "7", "8", "9"}

DigitVal(c) ==
  CASE c = "0" -> 0 [] c = "1" -> 1 [] c = "2" -> 2 [] c = "3" -> 3
    [] c = "4" -> 4 [] c = "5" -> 5 [] c = "6" -> 6 [] c = "7" -> 7
    [] c = "8" -> 8 [] c = "9" -> 9

\* s[i:] of Python, with i the 1-based position of the first character kept.
Drop(s, i) == SubSeq(s, i, Len(s))

StartsAt(s, sub, i) ==
  /\ i >= 1
  /\ i + Len(sub) - 1 <= Len(s)
  /\ SubSeq(s, i, i + Len(sub) - 1) = sub

\* str.find: the lowest 0-based index of sub in s, or -1.
find(s, sub) ==
  LET hits == {i \in 1..(Len(s) + 1) : StartsAt(s, sub, i)}
  IN IF hits = {} THEN -1
     ELSE (CHOOSE i \in hits : \A j \in hits : i <= j) - 1

\* str.rfind: the highest 0-based index of sub in s, or -1.
rfind(s, sub) ==
  LET hits == {i \in 1..(Len(s) + 1) : StartsAt(s, sub, i)}
  IN IF hits = {} THEN -1
     ELSE (CHOOSE i \in hits : \A j \in hits : i >= j) - 1

\* x in s, for strings.
contains(s, sub) == find(s, sub) # -1

\* str.split(sep): the list of the pieces between the occurrences of sep.
RECURSIVE split(_, _)
split(s, sep) ==
  LET k == find(s, sep)
  IN IF k = -1 THEN <<s>>
     ELSE <<SubSeq(s, 1, k)>> \o split(Drop(s, k + Len(sep) + 1), sep)

\* str.strip(): leading and trailing whitespace removed.
strip(s) ==
  LET keep == {i \in 1..Len(s) : s[i] \notin Whitespace}
  IN IF keep = {} THEN <<>>
     ELSE SubSeq(s, CHOOSE i \in keep : \A j \in keep : i <= j,
                    CHOOSE i \in keep : \A j \in keep : i >= j)

LowerChar(c) ==
  CASE c = "A" -> "a" [] c = "B" -> "b" [] c = "C" -> "c" [] c = "D" -> "d"
    [] c = "E" -> "e" [] c = "F" -> "f" [] c = "G" -> "g" [] c = "H" -> "h"
    [] c = "I" -> "i" [] c = "J" -> "j" [] c = "K" -> "k" [] c = "L" -> "l"
    [] c = "M" -> "m" [] c = "N" -> "n" [] c = "O" -> "o" [] c = "P" -> "p"
    [] c = "Q" -> "q" [] c = "R" -> "r" [] c = "S" -> "s" [] c = "T" -> "t"
    [] c = "U" -> "u" [] c = "V" -> "v" [] c = "W" -> "w" [] c = "X" -> "x"
    [] c = "Y" -> "y" [] c = "Z" -> "z"
    [] OTHER -> c

\* str.lower() (ASCII letters).
lower(s) == [i \in 1..Len(s) |-> LowerChar(s[i])]

(***************************************************************************)
(* JSON values as Python holds them after json.loads.  Every value is a    *)
(* record of one shape: t is the Python type ("none", "bool", "int",       *)
(* "str", "list", "dict"), n the number (or 0/1 of a bool), s the          *)
(* characters of a str, keys the keys of a dict in insertion order and     *)
(* items the elements of a list or the values of a dict.                   *)
(***************************************************************************)
MkVal(t, n, s, keys, items) ==
  [t |-> t, n |-> n, s |-> s, keys |-> keys, items |-> items]

None == MkVal("none", 0, <<>>, <<>>, <<>>)
PyBool(b) == MkVal("bool", IF b THEN 1 ELSE 0, <<>>, <<>>, <<>>)
PyInt(n) == MkVal("int", n, <<>>, <<>>, <<>>)
PyStr(s) == MkVal("str", 0, s, <<>>, <<>>)
PyList(items) == MkVal("list", 0, <<>>, <<>>, items)
PyDict(keys, items) == MkVal("dict", 0, <<>>, keys, items)

\* d[key] = v on a dict: a present key keeps its place and takes the new value.
DictPut(d, key, v) ==
  LET at == {i \in 1..Len(d.keys) : d.keys[i] = key}
  IN IF at = {} THEN PyDict(Append(d.keys, key), Append(d.items, v))
     ELSE PyDict(d.keys, [i \in 1..Len(d.items) |->
                            IF i \in at THEN v ELSE d.items[i]])

\* dict.get(key, default)
DictGet(d, key, default) ==
  LET at == {i \in 1..Len(d.keys) : d.keys[i] = key}
  IN IF at = {} THEN default ELSE d.items[CHOOSE i \in at : TRUE]

\* bool(v): Python truthiness.
Truthy(v) ==
  CASE v.t = "none" -> FALSE
    [] v.t = "bool" -> v.n = 1
    [] v.t = "int" -> v.n # 0
    [] v.t = "str" -> v.s # <<>>
    [] v.t = "list" -> v.items # <<>>
    [] v.t = "dict" -> v.keys # <<>>

(***************************************************************************)
(* json.loads on the JSON subset of the modelled alphabet: whitespace,     *)
(* null / true / false, integers, strings without escapes, arrays and      *)
(* objects (no fractions, exponents, escapes, NaN or Infinity occur in the *)
(* texts).  A parse step returns [ok, val, next]: next is the 1-based      *)
(* position after the value.                                               *)
(***************************************************************************)
ParseFail == [ok |-> FALSE, val |-> None, next |-> 0]
ParseOk(v, next) == [ok |-> TRUE, val |-> v, next |-> next]

RECURSIVE SkipWs(_, _)
SkipWs(s, i) ==
  IF i <= Len(s) /\ s[i] \in Whitespace THEN SkipWs(s, i + 1) ELSE i

CharAt(s, i) == IF i >= 1 /\ i <= Len(s) THEN s[i] ELSE "EOF"

\* The characters of a string literal opening at s[i] = '"'.
RECURSIVE ScanString(_, _, _)
ScanString(s, i, acc) ==
  LET c == CharAt(s, i)
  IN IF c = "EOF" \/ c = "\\" \/ c \in {"\n", "\t", "\r"} THEN ParseFail
     ELSE IF c = "\"" THEN ParseOk(PyStr(acc), i + 1)
     ELSE ScanString(s, i + 1, Append(acc, c))

RECURSIVE ScanDigits(_, _, _)
ScanDigits(s, i, acc) ==
  IF CharAt(s, i) \in DigitChars
  THEN ScanDigits(s, i + 1, 10 * acc + DigitVal(s[i]))
  ELSE [n |-> acc, next |-> i]

\* -?(0|[1-9][0-9]*)
ScanNumber(s, i) ==
  LET neg == CharAt(s, i) = "-"
      j == IF neg THEN i + 1 ELSE i
      c == CharAt(s, j)
  IN IF c \notin DigitChars THEN ParseFail
     ELSE IF c = "0" THEN ParseOk(PyInt(0), j + 1)
     ELSE LET d == ScanDigits(s, j, 0)
          IN ParseOk(PyInt(IF neg THEN 0 - d.n ELSE d.n), d.next)

ScanLiteral(s, i, word, v) ==
  IF StartsAt(s, word, i) THEN ParseOk(v, i + Len(word)) ELSE ParseFail

RECURSIVE ParseValue(_, _)
RECURSIVE ParseElems(_, _, _)
RECURSIVE ParseMembers(_, _, _)

\* JSONArray after the first element position j.
ParseElems(s, j, acc) ==
  LET r == ParseValue(s, j)
  IN IF ~r.ok THEN ParseFail
     ELSE LET k == SkipWs(s, r.next)
              c == CharAt(s, k)
              got == Append(acc, r.val)
          IN IF c = "]" THEN ParseOk(PyList(got), k + 1)
             ELSE IF c = "," THEN ParseElems(s, SkipWs(s, k + 1), got)
             ELSE ParseFail

\* JSONObject with s[j] expected to open a key.
ParseMembers(s, j, d) ==
  IF CharAt(s, j) # "\"" THEN ParseFail
  ELSE LET ks == ScanString(s, j + 1, <<>>)
       IN IF ~ks.ok THEN ParseFail
          ELSE LET k == SkipWs(s, ks.next)
               IN IF CharAt(s, k) # ":" THEN ParseFail
                  ELSE LET r == ParseValue(s, SkipWs(s, k + 1))
                       IN IF ~r.ok THEN ParseFail
                          ELSE LET m == SkipWs(s, r.next)
                                   c == CharAt(s, m)
                                   got == DictPut(d, ks.val.s, r.val)
                               IN IF c = "}" THEN ParseOk(got, m + 1)
                                  ELSE IF c = ","
                                  THEN ParseMembers(s, SkipWs(s, m + 1), got)
                                  ELSE ParseFail

ParseValue(s, i) ==
  LET c == CharAt(s, i)
  IN CASE c = "\"" -> ScanString(s, i + 1, <<>>)
       [] c = "{" ->
            LET j == SkipWs(s, i + 1)
            IN IF CharAt(s, j) = "}" THEN ParseOk(PyDict(<<>>, <<>>), j + 1)
               ELSE ParseMembers(s, j, PyDict(<<>>, <<>>))
       [] c = "[" ->
            LET j == SkipWs(s, i + 1)
            IN IF CharAt(s, j) = "]" THEN ParseOk(PyList(<<>>), j + 1)
               ELSE ParseElems(s, j, <<>>)
       [] c = "n" -> ScanLiteral(s, i, <<"n", "u", "l", "l">>, None)
       [] c = "t" -> ScanLiteral(s, i, <<"t", "r", "u", "e">>, PyBool(TRUE))
       [] c = "f" -> ScanLiteral(s, i, <<"f", "a", "l", "s", "e">>, PyBool(FALSE))
       [] c = "-" \/ c \in DigitChars -> ScanNumber(s, i)
       [] OTHER -> ParseFail

\* json.loads(s): [ok, val]; ok = FALSE stands for the JSONDecodeError raised.
json_loads(s) ==
  LET r == ParseValue(s, SkipWs(s, 1))
  IN IF r.ok /\ SkipWs(s, r.next) = Len(s) + 1
     THEN [ok |-> TRUE, val |-> r.val]
     ELSE [ok |-> FALSE, val |-> None]

(***************************************************************************)
(* parse_model_json                                                        *)
(***************************************************************************)
\* The backtick character (U+0060), which a TLA+ string literal cannot hold.
BT == "bt"

FenceOpen == <<BT, BT, BT, "j", "s", "o", "n">>
Fence == <<BT, BT, BT>>

\* raw.split(FenceOpen)[1].split(Fence)[0]; ok = FALSE stands for the
\* IndexError raised when raw holds no opening fence marker.
FenceInterior(raw) ==
  LET parts == split(raw, FenceOpen)
  IN IF Len(parts) < 2 THEN [ok |-> FALSE, text |-> <<>>]
     ELSE [ok |-> TRUE, text |-> split(parts[2], Fence)[1]]

\* The three attempts of parse_model_json, each [ok, val].
TryWhole(raw) == json_loads(strip(raw))

TryFence(raw) ==
  LET f == FenceInterior(raw)
  IN IF f.ok THEN json_loads(f.text) ELSE [ok |-> FALSE, val |-> None]

\* TryBraces with the slice ending one character early: raw[start:end].
TryBraces_SliceShort(raw) ==
  LET start == find(raw, <<"{">>)
      end == rfind(raw, <<"}">>)
  IN IF start # -1 /\ end # -1 /\ end > start
     THEN json_loads(SubSeq(raw, start + 1, end))
     ELSE [ok |-> FALSE, val |-> None]

TryBraces(raw) ==
  LET start == find(raw, <<"{">>)
      end == rfind(raw, <<"}">>)
  IN IF start # -1 /\ end # -1 /\ end > start
     THEN json_loads(SubSeq(raw, start + 1, end + 1))
     ELSE [ok |-> FALSE, val |-> None]

\* parse_model_json with the braces tried before the fenced block.
parse_model_json_BracesFirst(raw) ==
  LET a == TryWhole(raw)
  IN IF a.ok THEN [val |-> a.val, tried |-> <<"whole">>]
     ELSE LET c == TryBraces(raw)
          IN IF c.ok THEN [val |-> c.val, tried |-> <<"whole", "braces">>]
             ELSE LET b == TryFence(raw)
                  IN [val |-> IF b.ok THEN b.val ELSE None,
                      tried |-> <<"whole", "braces", "fence">>]

\* The value returned, with the attempts made in the order they were made.
parse_model_json(raw) ==
  LET a == TryWhole(raw)
  IN IF a.ok THEN [val |-> a.val, tried |-> <<"whole">>]
     ELSE LET b == TryFence(raw)
          IN IF b.ok THEN [val |-> b.val, tried |-> <<"whole", "fence">>]
             ELSE LET c == TryBraces(raw)
                  IN [val |-> IF c.ok THEN c.val ELSE None,
                      tried |-> <<"whole", "fence", "braces">>]

(***************************************************************************)
(* The dataset (pandas DataFrame read by pd.read_csv): cols the column     *)
(* names in order, numeric the columns whose cells are numbers in the      *)
(* file, rows the records.  A cell is an integer: the number itself in a   *)
(* numeric column, the rank of the name (in sorted order) in a text        *)
(* column.                                                                 *)
(***************************************************************************)
c_team1 == <<"t", "e", "a", "m", "1">>
c_toss_winner == <<"t", "o", "s", "s", "_", "w", "i", "n", "n", "e", "r">>
c_winner == <<"w", "i", "n", "n", "e", "r">>
c_win_by_runs == <<"w", "i", "n", "_", "b", "y", "_", "r", "u", "n", "s">>
c_venue == <<"v", "e", "n", "u", "e">>
CountWord == <<"c", "o", "u", "n", "t">>

\* pd.api.types.is_numeric_dtype(df[col]): read_csv infers an integer dtype
\* from the cells of a column of numbers; with no row to infer from, every
\* column has dtype object.
is_numeric_dtype(d, col) == col \in d.numeric /\ d.rows # <<>>

\* list(df.columns)
available_cols(d) == {d.cols[i] : i \in 1..Len(d.cols)}

\* v in available_cols, for a Python value v.
IsCol(d, v) == v.t = "str" /\ v.s \in available_cols(d)

Categories(d, col) == {d.rows[i][col] : i \in 1..Len(d.rows)}

CountIn(d, col, v) == Cardinality({i \in 1..Len(d.rows) : d.rows[i][col] = v})

RECURSIVE SumUpTo(_, _, _, _, _)
SumUpTo(d, col, ycol, v, i) ==
  IF i = 0 THEN 0
  ELSE SumUpTo(d, col, ycol, v, i - 1)
         + (IF d.rows[i][col] = v THEN d.rows[i][ycol] ELSE 0)

SumIn(d, col, ycol, v) == SumUpTo(d, col, ycol, v, Len(d.rows))

\* The orders in which the elements of S can be listed.
Perms(S) ==
  {f \in [1..Cardinality(S) -> S] :
     \A i, j \in 1..Cardinality(S) : i # j => f[i] # f[j]}

IsDescending(series) ==
  \A i, j \in 1..Len(series) : i < j => series[i].value >= series[j].value

\* df[col].value_counts().reset_index(): one row per distinct value with its
\* count, in descending order of count; the order among equal counts is the
\* sort's and is left open.
value_counts(d, col) ==
  {s \in {[i \in 1..Len(f) |-> [key |-> f[i], value |-> CountIn(d, col, f[i])]] :
            f \in Perms(Categories(d, col))} : IsDescending(s)}

\* df.groupby(col)[ycol].sum().reset_index(): one row per distinct value with
\* the sum of ycol, in ascending order of the group key.
groupby_sum(d, col, ycol) ==
  LET f == CHOOSE g \in Perms(Categories(d, col)) :
             \A i, j \in 1..Len(g) : i < j => g[i] < g[j]
  IN [i \in 1..Len(f) |-> [key |-> f[i], value |-> SumIn(d, col, ycol, f[i])]]

\* sort_values with ascending=True.
sort_values_asc(series) ==
  {s \in {[i \in 1..Len(series) |-> series[p[i]]] : p \in Perms(1..Len(series))} :
     \A i, j \in 1..Len(s) : i < j => s[i].value <= s[j].value}

\* data.sort_values(by=value_col, ascending=False); quicksort, so the order
\* among equal values is left open.
sort_values_desc(series) ==
  {s \in {[i \in 1..Len(series) |-> series[p[i]]] : p \in Perms(1..Len(series))} :
     IsDescending(s)}

\* head keeping one row too many.
head_OneMore(series, n) ==
  SubSeq(series, 1, IF n + 1 < Len(series) THEN n + 1 ELSE Len(series))

\* data.head(n): the first n rows, or all but the last -n when n < 0.
head(series, n) ==
  IF n >= 0
  THEN SubSeq(series, 1, IF n < Len(series) THEN n ELSE Len(series))
  ELSE SubSeq(series, 1, IF Len(series) + n > 0 THEN Len(series) + n ELSE 0)

\* if y != "count" and y not in available_cols: y = "count"
FixY(d, yv) ==
  IF yv # PyStr(CountWord) /\ ~IsCol(d, yv) THEN PyStr(CountWord) ELSE yv

Prepared(series, col) == [ok |-> TRUE, data |-> series, value_col |-> col]
\* An exception raised inside the block, which nothing catches; series and
\* col are what the block had bound to data and value_col by then (<<>> for a
\* name not bound yet).
PrepareRaises(series, col) == [ok |-> FALSE, data |-> series, value_col |-> col]

\* data = <sorted>.head(limit) for a truthy limit; head raises TypeError unless
\* limit is an int, and data and value_col stay as bound before the call.
Limited(sorted, lim, col, bound, boundCol) ==
  IF lim.t = "int" THEN Prepared(head(sorted, lim.n), col)
  ELSE PrepareRaises(bound, boundCol)

\* The Prepare Data block for x, the corrected y and limit: every result it
\* can produce.
PrepareOutcomes(d, xv, yv, lim) ==
  IF ~IsCol(d, xv) THEN {PrepareRaises(<<>>, <<>>)}     \* df[x]: KeyError
  ELSE IF yv = PyStr(CountWord)
  THEN {IF Truthy(lim) THEN Limited(s, lim, CountWord, s, <<>>)
        ELSE Prepared(s, CountWord) : s \in value_counts(d, xv.s)}
  ELSE IF is_numeric_dtype(d, yv.s)
  THEN IF xv.s = yv.s
       THEN {PrepareRaises(<<>>, <<>>)}                 \* reset_index: ValueError
       ELSE IF Truthy(lim)
       THEN {Limited(s, lim, yv.s, groupby_sum(d, xv.s, yv.s), yv.s) :
               s \in sort_values_desc(groupby_sum(d, xv.s, yv.s))}
       ELSE {Prepared(groupby_sum(d, xv.s, yv.s), yv.s)}
  ELSE {Prepared(s, CountWord) : s \in value_counts(d, xv.s)}

(***************************************************************************)
(* State.  One script run of the page (Streamlit executes the file top to  *)
(* bottom on every interaction); the names are the script's own.           *)
(***************************************************************************)
VARIABLES
  pc,               \* the statement the run is at
  outcome,          \* "running", or how the run ended
  df,               \* the dataset
  generate, query,  \* the widgets' values in this run
  raw,              \* the text handed to parse_model_json
  chart_info,       \* what parse_model_json returned
  tried,            \* the attempts parse_model_json made, in order
  x, y, chart_type, limit,
  data, value_col,  \* the aggregated series and its value column
  fig,              \* the chart built: "none", "pie" or "bar"
  chart_file,       \* this run's temporary chart image: "none" or "exists"
  remove_attempted, \* os.remove(chart_path) (line 275, the file's only
                    \* deletion of the chart image) was called in this run
  stages,           \* the stages of the pipeline completed in this run
  emitted           \* what the run has put on the page

vars == <<pc, outcome, df, generate, query, raw, chart_info, tried,
          x, y, chart_type, limit, data, value_col, fig, chart_file,
          remove_attempted, stages, emitted>>

parseVars == <<raw, chart_info, tried>>
fieldVars == <<x, y, chart_type, limit>>
aggVars == <<data, value_col, fig>>
runVars == <<chart_file, remove_attempted, stages, emitted>>
inputVars == <<df, generate, query>>

(***************************************************************************)
(* The script run.                                                         *)
(***************************************************************************)
k_x == <<"x">>
k_y == <<"y">>
k_chart_type == <<"c", "h", "a", "r", "t", "_", "t", "y", "p", "e">>
k_limit == <<"l", "i", "m", "i", "t">>
w_team == <<"t", "e", "a", "m">>
w_toss == <<"t", "o", "s", "s">>
w_pie == <<"p", "i", "e">>
w_bar == <<"b", "a", "r">>

\* if generate and query
Submitted == generate /\ query # <<>>

Goto(p) == pc' = p /\ outcome' = outcome
\* st.error(...) or st.warning(...), then st.stop()
StopWith(msg) ==
  /\ pc' = pc
  /\ outcome' = "stopped"
  /\ emitted' = emitted \cup {msg}
\* An exception nothing catches: the run ends with a traceback.
Raise == pc' = pc /\ outcome' = "crashed"

At(p) == pc = p /\ outcome = "running"

\* The file is compiled before its first statement runs.  The block from
\* "PDF Preview" to the download button (lines 241-272) is at column 0 and
\* the clean-up after it (lines 274-277) is indented again, so the compiler
\* raises IndentationError at line 274 and the run ends with nothing loaded,
\* requested or put on the page.
Compile ==
  /\ At("compile")
  /\ pc' = pc
  /\ outcome' = "not_compiled"
  /\ UNCHANGED <<inputVars, parseVars, fieldVars, aggVars, runVars>>

\* Line 118: the Main Processing block is entered with the button pressed and
\* a query typed, and skipped otherwise.
Gate ==
  /\ At("gate")
  /\ IF Submitted THEN Goto("invoke")
     ELSE pc' = "after_main" /\ outcome' = "skipped"
  /\ UNCHANGED <<inputVars, parseVars, fieldVars, aggVars, runVars>>

(***************************************************************************)
(* The replies of the model: JSON objects with each of x, y, chart_type    *)
(* and limit absent or of several types, some of them inside a fenced      *)
(* block or after prose, and replies that are no object.                   *)
(***************************************************************************)
Quote(w) == <<"\"">> \o w \o <<"\"">>
NullWord == <<"n", "u", "l", "l">>

\* The values a field is given in a reply; <<>> leaves the key out.
XFragments ==
  { <<>>, Quote(c_team1), Quote(<<"T", "e", "a", "m">>),
    Quote(<<"W", "i", "n", "n", "e", "r">>), Quote(w_toss), Quote(c_venue),
    Quote(c_win_by_runs), <<"5">> }
YFragments ==
  { <<>>, Quote(CountWord), Quote(c_win_by_runs), Quote(c_winner),
    Quote(<<"b", "o", "g", "u", "s">>), <<"[", "1", "]">> }
TypeFragments == { <<>>, Quote(<<"P", "i", "e">>), Quote(w_bar), <<"5">> }
LimitFragments ==
  { <<>>, <<"0">>, <<"1">>, <<"2">>, Quote(<<"2">>), <<"-", "1">> }

RECURSIVE JoinMembers(_)
JoinMembers(ms) ==
  IF ms = <<>> THEN <<>>
  ELSE IF Len(ms) = 1 THEN ms[1]
  ELSE ms[1] \o <<",", " ">> \o JoinMembers(Tail(ms))

Member(k, frag) ==
  IF frag = <<>> THEN <<>> ELSE <<Quote(k) \o <<":", " ">> \o frag>>

ObjectText(xf, yf, cf, lf) ==
  <<"{">>
    \o JoinMembers(Member(k_x, xf) \o Member(k_y, yf)
                     \o Member(k_chart_type, cf) \o Member(k_limit, lf))
    \o <<"}">>

Fenced(t) == FenceOpen \o <<"\n">> \o t \o <<"\n">> \o Fence
AfterProse(t) == <<"O", "K", ":", " ">> \o t \o <<" ", ".">>

ObjectReplies ==
  {ObjectText(xf, yf, cf, lf) :
     xf \in XFragments, yf \in YFragments, cf \in TypeFragments,
     lf \in LimitFragments}

WrappedReplies ==
  LET t == ObjectText(Quote(c_team1), Quote(CountWord), Quote(w_bar), <<"1">>)
  IN {Fenced(t), AfterProse(t)}

OtherReplies ==
  { <<"[", "1", "]">>, <<"5">>, Quote(w_pie), NullWord, <<"{", "}">>,
    <<"n", "o">> }

ModelReplies == ObjectReplies \cup WrappedReplies \cup OtherReplies

\* Lines 133-135: the model replies and the reply is parsed.
InvokeModel ==
  /\ At("invoke")
  /\ \E reply \in ModelReplies :
       /\ raw' = reply
       /\ LET r == parse_model_json(reply)
          IN chart_info' = r.val /\ tried' = r.tried
  /\ stages' = stages \cup {"request"}
  /\ Goto("check_info")
  /\ UNCHANGED <<inputVars, fieldVars, aggVars, chart_file, remove_attempted,
                 emitted>>

\* Lines 136-138: model.invoke raises.
InvokeModelFails ==
  /\ At("invoke")
  /\ StopWith("err_model_request")
  /\ UNCHANGED <<inputVars, parseVars, fieldVars, aggVars, chart_file,
                 remove_attempted, stages>>

\* Lines 140-142: if not chart_info
CheckInfo ==
  /\ At("check_info")
  /\ IF ~Truthy(chart_info)
     THEN StopWith("err_model_output") /\ stages' = stages
     ELSE /\ Goto("read_fields")
          /\ stages' = stages \cup {"parse"}
          /\ emitted' = emitted
  /\ UNCHANGED <<inputVars, parseVars, fieldVars, aggVars, chart_file,
                 remove_attempted>>

\* Lines 144-147: chart_info.get(...); only a dict has get, any other value
\* raises AttributeError.
ReadFields ==
  /\ At("read_fields")
  /\ IF chart_info.t = "dict"
     THEN /\ x' = DictGet(chart_info, k_x, None)
          /\ y' = DictGet(chart_info, k_y, None)
          /\ chart_type' = DictGet(chart_info, k_chart_type, None)
          /\ limit' = DictGet(chart_info, k_limit, None)
          /\ Goto("validate")
     ELSE Raise /\ UNCHANGED fieldVars
  /\ UNCHANGED <<inputVars, parseVars, aggVars, runVars>>

\* Lines 150-153: if not x or not y or not chart_type
ValidateKeys ==
  /\ At("validate")
  /\ IF ~Truthy(x) \/ ~Truthy(y) \/ ~Truthy(chart_type)
     THEN StopWith("err_missing_keys")
     ELSE Goto("autocorrect") /\ emitted' = emitted
  /\ UNCHANGED <<inputVars, parseVars, fieldVars, aggVars, chart_file,
                 remove_attempted, stages>>

\* The column the keyword heuristics put in place of x, or "none";
\* x.lower() raises AttributeError unless x is a str ("raises").
Heuristic(xv) ==
  IF xv.t # "str" THEN "raises"
  ELSE IF contains(lower(xv.s), w_team) THEN "team1"
  ELSE IF contains(lower(xv.s), c_winner) THEN "winner"
  ELSE IF contains(lower(xv.s), w_toss) THEN "toss_winner"
  ELSE "none"

\* Lines 156-165: auto-correct column names.
AutoCorrect ==
  /\ At("autocorrect")
  /\ IF IsCol(df, x) THEN Goto("prepare") /\ UNCHANGED <<x, emitted>>
     ELSE LET h == Heuristic(x)
          IN CASE h = "raises" -> Raise /\ UNCHANGED <<x, emitted>>
               [] h = "team1" ->
                    Goto("prepare") /\ x' = PyStr(c_team1) /\ emitted' = emitted
               [] h = "winner" ->
                    Goto("prepare") /\ x' = PyStr(c_winner) /\ emitted' = emitted
               [] h = "toss_winner" ->
                    /\ Goto("prepare")
                    /\ x' = PyStr(c_toss_winner)
                    /\ emitted' = emitted
               [] OTHER -> StopWith("err_column") /\ x' = x
  /\ UNCHANGED <<inputVars, parseVars, y, chart_type, limit, aggVars,
                 chart_file, remove_attempted, stages>>

\* Lines 167-186: y falls back to "count" unless it is a column, then the
\* series is computed.
PrepareData ==
  /\ At("prepare")
  /\ y' = FixY(df, y)
  /\ \E o \in PrepareOutcomes(df, x, FixY(df, y), limit) :
       /\ data' = o.data
       /\ value_col' = o.value_col
       /\ IF o.ok
          THEN stages' = stages \cup {"aggregate"} /\ Goto("chart")
          ELSE Raise /\ stages' = stages
  /\ fig' = fig
  /\ UNCHANGED <<inputVars, parseVars, x, chart_type, limit, chart_file,
                 remove_attempted, emitted>>


\* Lines 189-196: px.pie when chart_type.lower() is "pie", px.bar otherwise;
\* chart_type.lower() raises AttributeError unless chart_type is a str, and
\* whatever the block raises is caught.
CreateChart ==
  /\ At("chart")
  /\ \E plotted \in BOOLEAN :
       IF chart_type.t = "str" /\ plotted
       THEN /\ fig' = IF lower(chart_type.s) = w_pie THEN "pie" ELSE "bar"
            /\ Goto("save_chart")
            /\ emitted' = emitted
       ELSE StopWith("err_chart") /\ fig' = fig
  /\ UNCHANGED <<inputVars, parseVars, fieldVars, data, value_col, chart_file,
                 remove_attempted, stages>>

\* Lines 199-210: NamedTemporaryFile(delete=False) creates the file, then
\* fig.write_image fills it; an exception from either is caught and the run
\* stops.
SaveChart ==
  /\ At("save_chart")
  /\ \E created \in BOOLEAN, written \in BOOLEAN :
       /\ chart_file' = IF created THEN "exists" ELSE chart_file
       /\ IF created /\ written
          THEN Goto("pdf") /\ emitted' = emitted
          ELSE StopWith("err_save_chart")
  /\ UNCHANGED <<inputVars, parseVars, fieldVars, aggVars, remove_attempted,
                 stages>>

\* Lines 213-237: the PDF is composed, which ends the block; an exception
\* (pdf.image, pdf.output) is not caught.
GeneratePdf ==
  /\ At("pdf")
  /\ \E composed \in BOOLEAN :
       IF composed
       THEN /\ pc' = "after_main"
            /\ outcome' = "composed"
            /\ stages' = stages \cup {"assemble"}
       ELSE Raise /\ stages' = stages
  /\ UNCHANGED <<inputVars, parseVars, fieldVars, aggVars, chart_file,
                 remove_attempted, emitted>>

\* The state of a run at statement p with no name of lines 118-237 bound yet.
RunStarts(p, d, g, q) ==
  /\ pc = p
  /\ outcome = "running"
  /\ df = d
  /\ generate = g
  /\ query = q
  /\ raw = <<>>
  /\ chart_info = None
  /\ tried = <<>>
  /\ x = None /\ y = None /\ chart_type = None /\ limit = None
  /\ data = <<>> /\ value_col = <<>> /\ fig = "none"
  /\ chart_file = "none"
  /\ remove_attempted = FALSE
  /\ stages = {}
  /\ emitted = {}

\* The next interaction: the script is executed again from the top, with the
\* widgets' new values and nothing kept of the run before.
Rerun ==
  /\ outcome # "running"
  /\ \E g \in BOOLEAN, q \in {<<>>, <<"q">>} :
       /\ pc' = "compile"
       /\ outcome' = "running"
       /\ generate' = g
       /\ query' = q
  /\ raw' = <<>>
  /\ chart_info' = None
  /\ tried' = <<>>
  /\ x' = None /\ y' = None /\ chart_type' = None /\ limit' = None
  /\ data' = <<>> /\ value_col' = <<>> /\ fig' = "none"
  /\ chart_file' = "none"
  /\ remove_attempted' = FALSE
  /\ stages' = {}
  /\ emitted' = {}
  /\ df' = df

(***************************************************************************)
(* The datasets of the script runs: one table and its projections on       *)
(* fewer columns.                                                          *)
(***************************************************************************)
MatchRow(t, tw, w, r) ==
  (c_team1 :> t) @@ (c_toss_winner :> tw) @@ (c_winner :> w)
    @@ (c_win_by_runs :> r)

Matches ==
  << MatchRow(1, 1, 1, 5), MatchRow(1, 2, 2, 0), MatchRow(2, 2, 2, 3),
     MatchRow(3, 1, 2, 0) >>

Project(colseq) ==
  [cols |-> colseq,
   numeric |-> {c_win_by_runs} \cap {colseq[i] : i \in 1..Len(colseq)},
   rows |-> [i \in 1..Len(Matches) |->
               [c \in {colseq[k] : k \in 1..Len(colseq)} |-> Matches[i][c]]]]

ScriptDatasets ==
  { Project(<<c_team1, c_toss_winner, c_winner, c_win_by_runs>>),
    Project(<<c_toss_winner, c_winner, c_win_by_runs>>),
    Project(<<c_team1, c_win_by_runs>>) }

\* The file in src/: every run ends at compilation.
Init ==
  \E d \in ScriptDatasets, g \in BOOLEAN, q \in {<<>>, <<"q">>} :
    RunStarts("compile", d, g, q)

Next ==
  \/ Compile
  \/ Rerun

Spec == Init /\ [][Next]_vars

(***************************************************************************)
(* The Main Processing block (lines 118-237) as a function of the widgets, *)
(* the dataset and the model's reply: the statements of the block in the   *)
(* order and nesting they have in the file.  The block ends by st.stop(),  *)
(* by an exception nothing catches, or with the PDF composed; what the     *)
(* file holds after it (lines 241-277) is no part of it.                   *)
(***************************************************************************)
InitMain ==
  \E d \in ScriptDatasets, g \in BOOLEAN, q \in {<<>>, <<"q">>} :
    RunStarts("gate", d, g, q)

NextMain ==
  \/ Gate
  \/ InvokeModel
  \/ InvokeModelFails
  \/ CheckInfo
  \/ ReadFields
  \/ ValidateKeys
  \/ AutoCorrect
  \/ PrepareData
  \/ CreateChart
  \/ SaveChart
  \/ GeneratePdf

SpecMain == InitMain /\ [][NextMain]_vars

(***************************************************************************)
(* parse_model_json as a function of its input: the texts are every        *)
(* concatenation of at most MaxPieces pieces, and some longer replies.     *)
(***************************************************************************)
MaxPieces == 4

KeyA == <<"\"", "a", "\"", ":">>

Pieces ==
  { <<"{">>, <<"}">>, <<"[">>, <<"]">>, <<"1">>, <<",">>, <<" ">>, <<"x">>,
    KeyA, NullWord, FenceOpen, Fence }

RECURSIVE Texts(_)
Texts(n) ==
  IF n = 0 THEN {<<>>}
  ELSE LET shorter == Texts(n - 1)
       IN shorter \cup {t \o p : t \in shorter, p \in Pieces}

\* Replies as the model gives them: an object alone, in a fenced block and
\* after prose, and an object whose string value holds a fenced block.
SampleReplies ==
  LET t == ObjectText(Quote(c_team1), Quote(CountWord), Quote(w_bar), <<"5">>)
  IN { t, Fenced(t), AfterProse(t),
       <<"{">> \o KeyA \o Quote(FenceOpen \o <<"{", "}">> \o Fence)
         \o <<"}", "x">> }

RawTexts == Texts(MaxPieces) \cup SampleReplies

EmptyDf == [cols |-> <<>>, numeric |-> {}, rows |-> <<>>]

InitParse ==
  /\ raw \in RawTexts
  /\ pc = "parse_call"
  /\ outcome = "running"
  /\ df = EmptyDf
  /\ generate = TRUE
  /\ query = <<"q">>
  /\ chart_info = None
  /\ tried = <<>>
  /\ x = None /\ y = None /\ chart_type = None /\ limit = None
  /\ data = <<>> /\ value_col = <<>> /\ fig = "none"
  /\ chart_file = "none"
  /\ remove_attempted = FALSE
  /\ stages = {}
  /\ emitted = {}

\* chart_info = parse_model_json(raw)
ParseCall ==
  /\ pc = "parse_call"
  /\ LET r == parse_model_json(raw)
     IN /\ chart_info' = r.val
        /\ tried' = r.tried
  /\ pc' = "parse_return"
  /\ UNCHANGED <<outcome, raw, inputVars, fieldVars, aggVars, runVars>>

NextParse == ParseCall

SpecParse == InitParse /\ [][NextParse]_vars

(***************************************************************************)
(* The Prepare Data block as a function of the dataset, x, y and limit:    *)
(* every table of at most MaxRows matches between the teams, a valid x,    *)
(* and y the count token, a numeric column, a text column or no column.    *)
(***************************************************************************)
MaxRows == 3
MaxLimit == 3
Teams == {1, 2, 3}
Runs == {0, 1, 2}

\* team1 won by r runs, or lost to the next team when r = 0.
AggRow(t, r) ==
  (c_team1 :> t) @@ (c_winner :> IF r > 0 THEN t ELSE (t % 3) + 1)
    @@ (c_win_by_runs :> r)

RECURSIVE RowSeqs(_)
RowSeqs(n) ==
  IF n = 0 THEN {<<>>}
  ELSE LET shorter == RowSeqs(n - 1)
       IN shorter \cup {Append(rs, AggRow(t, r)) :
                          rs \in shorter, t \in Teams, r \in Runs}

AggDatasets ==
  {[cols |-> <<c_team1, c_winner, c_win_by_runs>>,
    numeric |-> {c_win_by_runs},
    rows |-> rs] : rs \in RowSeqs(MaxRows)}

AggX == {c_team1, c_win_by_runs}
AggY == {CountWord, c_win_by_runs, c_winner, <<"b", "o", "g", "u", "s">>}
AggLimits == {None} \cup {PyInt(n) : n \in 0..MaxLimit}

InitAgg ==
  \E d \in AggDatasets, xs \in AggX, ys \in AggY, lim \in AggLimits :
    /\ pc = "prepare"
    /\ outcome = "running"
    /\ df = d
    /\ generate = TRUE
    /\ query = <<"q">>
    /\ raw = <<>>
    /\ chart_info = PyDict(<<k_x, k_y, k_chart_type, k_limit>>,
                           <<PyStr(xs), PyStr(ys), PyStr(w_bar), lim>>)
    /\ tried = <<>>
    /\ x = PyStr(xs)
    /\ y = PyStr(ys)
    /\ chart_type = PyStr(w_bar)
    /\ limit = lim
    /\ data = <<>> /\ value_col = <<>> /\ fig = "none"
    /\ chart_file = "none"
    /\ remove_attempted = FALSE
    /\ stages = {"request", "parse"}
    /\ emitted = {}

NextAgg == PrepareData

SpecAgg == InitAgg /\ [][NextAgg]_vars

(***************************************************************************)
(* What the claims about parse_model_json speak of, stated on positions    *)
(* of the text rather than through split and find.                         *)
(***************************************************************************)
Positions(s, c) == {i \in 1..Len(s) : s[i] = c}
MinOf(S) == CHOOSE i \in S : \A j \in S : i <= j
MaxOf(S) == CHOOSE i \in S : \A j \in S : i >= j

\* A '{' with a '}' somewhere after it.
HasBracePair(s) ==
  \E i \in Positions(s, "{") : \E j \in Positions(s, "}") : i < j

\* The text from the first '{' to the last '}'.
BraceText(s) == SubSeq(s, MinOf(Positions(s, "{")), MaxOf(Positions(s, "}")))

\* The text is a JSON object between its first '{' and its last '}'.
ObjectBetweenBraces(s) ==
  /\ HasBracePair(s)
  /\ json_loads(BraceText(s)).ok
  /\ json_loads(BraceText(s)).val.t = "dict"

OpenFences(s) == {i \in 1..Len(s) : StartsAt(s, FenceOpen, i)}

\* The interior of the first fenced block: from the end of the first opening
\* marker to the next three backticks, or to the end of the text.
FencedText(s) ==
  LET from == MinOf(OpenFences(s)) + Len(FenceOpen)
      closes == {j \in from..Len(s) : StartsAt(s, Fence, j)}
  IN IF closes = {} THEN SubSeq(s, from, Len(s))
     ELSE SubSeq(s, from, MinOf(closes) - 1)

WholeParses(s) == json_loads(strip(s)).ok
WholeValue(s) == json_loads(strip(s)).val
FenceParses(s) == OpenFences(s) # {} /\ json_loads(FencedText(s)).ok
FenceValue(s) == json_loads(FencedText(s)).val
BracesParse(s) == HasBracePair(s) /\ json_loads(BraceText(s)).ok
BracesValue(s) == json_loads(BraceText(s)).val

Returned == pc = "parse_return"

\* C1 (as stated): whenever the text from the first '{' to the last '}' is a
\* JSON object, parse_model_json returns that object.
C1_Original ==
  (Returned /\ ObjectBetweenBraces(raw)) => chart_info = BracesValue(raw)

\* C1 (amended): whenever the text from the first '{' to the last '}' is a
\* JSON object, parse_model_json returns that object unless the trimmed whole
\* text or the interior of the first fenced block parses as JSON; then it
\* returns the value of the earlier of those two, which is the same object
\* when the whole text is itself an object.
C1_ObjectUnlessEarlierStrategy ==
  (Returned /\ ObjectBetweenBraces(raw)) =>
     /\ (~WholeParses(raw) /\ ~FenceParses(raw)) =>
           chart_info = BracesValue(raw)
     /\ (WholeParses(raw) /\ WholeValue(raw).t = "dict") =>
           chart_info = BracesValue(raw)
     /\ WholeParses(raw) => chart_info = WholeValue(raw)
     /\ (~WholeParses(raw) /\ FenceParses(raw)) => chart_info = FenceValue(raw)

\* A text with prose and an unparseable fenced block around a non-empty
\* object, returned by the third attempt.
C1_Witness ==
  /\ Returned
  /\ ObjectBetweenBraces(raw)
  /\ ~WholeParses(raw) /\ ~FenceParses(raw)
  /\ OpenFences(raw) # {}
  /\ chart_info.t = "dict"
  /\ chart_info = BracesValue(raw)

\* C2 (as stated): a text with no '{' followed later by a '}' yields None.
C2_NoBracePairGivesNone ==
  (Returned /\ ~HasBracePair(raw)) => chart_info = None

\* C3 (as stated): the attempts are made in the order whole text, fenced
\* block, braces; the result is the value of the first that parses; a later
\* one is made only if the earlier ones failed; and the result is None
\* exactly when all three fail.
C3_FirstSuccessWins ==
  Returned =>
     /\ tried \in {<<"whole">>, <<"whole", "fence">>,
                   <<"whole", "fence", "braces">>}
     /\ Len(tried) >= 2 => ~WholeParses(raw)
     /\ Len(tried) >= 3 => ~FenceParses(raw)
     /\ WholeParses(raw) => chart_info = WholeValue(raw)
     /\ (~WholeParses(raw) /\ FenceParses(raw)) => chart_info = FenceValue(raw)
     /\ (~WholeParses(raw) /\ ~FenceParses(raw) /\ BracesParse(raw)) =>
           chart_info = BracesValue(raw)

AllThreeFail(s) == ~WholeParses(s) /\ ~FenceParses(s) /\ ~BracesParse(s)

\* C3 (as stated): order and first success as above, and the result is None
\* exactly when all three attempts fail.
C3_Original ==
  /\ C3_FirstSuccessWins
  /\ Returned => (chart_info = None <=> AllThreeFail(raw))

\* C3 (amended): as stated, except that None is returned when all three
\* attempts fail and also when the first attempt that parses yields JSON
\* null; it is returned in no other case.
C3_FirstSuccessWinsNoneOrNull ==
  /\ C3_FirstSuccessWins
  /\ Returned =>
       (chart_info = None <=>
          \/ AllThreeFail(raw)
          \/ (WholeParses(raw) /\ WholeValue(raw) = None)
          \/ (~WholeParses(raw) /\ FenceParses(raw) /\ FenceValue(raw) = None)
          \/ (~WholeParses(raw) /\ ~FenceParses(raw) /\ BracesParse(raw)
                /\ BracesValue(raw) = None))

\* The fenced block is what parses, in a text that also holds braces outside
\* it, so that the order of the second and third attempts decides the result.
C3_Witness ==
  /\ Returned
  /\ tried = <<"whole", "fence">>
  /\ HasBracePair(raw)
  /\ chart_info.t = "dict"
  /\ BraceText(raw) # FencedText(raw)

(***************************************************************************)
(* Claims about the Main Processing block (SpecMain).                      *)
(***************************************************************************)
\* The run ended inside the block, by st.stop() or by an exception.
EndedInBlock == outcome \in {"stopped", "crashed"}

\* C4 (as stated): a run that created the temporary chart image has called
\* os.remove on it by the time it ends, on every path; checked on the runs
\* that end inside the block.
C4_ChartFileRemovalAttempted ==
  (EndedInBlock /\ chart_file # "none") => remove_attempted

\* C5 (as stated): whatever value the parser hands over, the run does not end
\* in an uncaught exception raised while reading the fields, auto-correcting
\* the column name or preparing and truncating the series.
C5_NoUncaughtException ==
  outcome = "crashed" => pc \notin {"read_fields", "autocorrect", "prepare"}

\* C7 (as stated): the aggregation is entered only with x a column of the
\* dataset.
C7_AggregatesExistingColumn ==
  At("prepare") => IsCol(df, x)

(***************************************************************************)
(* Claims about the Prepare Data block (SpecAgg).                          *)
(***************************************************************************)
RequestedY == DictGet(chart_info, k_y, None)
Aggregated == pc = "chart"
LimitIsPositive == limit.t = "int" /\ limit.n >= 1

NumRowsWith(col, v) ==
  Cardinality({i \in DOMAIN df.rows : df.rows[i][col] = v})

RECURSIVE TotalOver(_, _, _, _)
TotalOver(rows, col, ycol, v) ==
  IF rows = <<>> THEN 0
  ELSE (IF Head(rows)[col] = v THEN Head(rows)[ycol] ELSE 0)
         + TotalOver(Tail(rows), col, ycol, v)

\* No row of the series holds a smaller value than a row after it.
InDescendingOrder(series) ==
  \A i \in DOMAIN series : \A j \in DOMAIN series :
    i < j => series[i].value >= series[j].value

DistinctX == {df.rows[i][x.s] : i \in DOMAIN df.rows}
KeysOf(series) == {series[i].key : i \in DOMAIN series}
DistinctKeys(series) ==
  \A i, j \in DOMAIN series : i # j => series[i].key # series[j].key
Smaller(a, b) == IF a < b THEN a ELSE b

\* The series is a count aggregation of x: one row per kept value with the
\* number of dataset rows holding it, in descending order, all the values
\* when no limit is set and the first limit of them otherwise.
IsCountSeries(series) ==
  /\ DistinctKeys(series)
  /\ KeysOf(series) \subseteq DistinctX
  /\ \A i \in DOMAIN series : series[i].value = NumRowsWith(x.s, series[i].key)
  /\ InDescendingOrder(series)
  /\ \A v \in DistinctX \ KeysOf(series) :
        \A i \in DOMAIN series : series[i].value >= NumRowsWith(x.s, v)
  /\ Len(series) = IF LimitIsPositive
                   THEN Smaller(limit.n, Cardinality(DistinctX))
                   ELSE Cardinality(DistinctX)

\* C8 (as stated): with y no column of the dataset, or a column that is not
\* numeric, the block does not fail and yields what the count aggregation
\* yields for the same x and limit.
C8_FallbackIsCountAggregation ==
  ( /\ RequestedY # PyStr(CountWord)
    /\ ~IsCol(df, RequestedY) \/ RequestedY.s \notin df.numeric
    /\ limit = None \/ LimitIsPositive )
  => /\ outcome # "crashed"
     /\ Aggregated => (value_col = CountWord /\ IsCountSeries(data))

\* C9: a count aggregation with limit = N, N a positive integer, yields at
\* most N rows, each the number of dataset rows with that x value, in
\* descending order of count.
C9_CountWithLimit ==
  (Aggregated /\ RequestedY = PyStr(CountWord) /\ LimitIsPositive) =>
     /\ Len(data) <= limit.n
     /\ DistinctKeys(data)
     /\ \A i \in DOMAIN data : data[i].value = NumRowsWith(x.s, data[i].key)
     /\ \A i \in DOMAIN data : data[i].value >= 1
     /\ InDescendingOrder(data)
     /\ value_col = CountWord

\* A count aggregation cut to one row out of several, the row kept holding a
\* value that occurs twice.
C9_Witness ==
  /\ Aggregated
  /\ RequestedY = PyStr(CountWord)
  /\ limit = PyInt(1)
  /\ Cardinality(DistinctX) >= 2
  /\ Len(data) = 1
  /\ data[1].value = 2

\* C10: a sum aggregation on a column of numbers with limit = N, N a positive
\* integer, yields at most N rows, each the sum of y over the dataset rows
\* with that x value, in descending order of the sum, and the rows kept are
\* the N values of x with the largest sums; the value column is y whenever
\* the dataset has a row.
C10_SumWithLimit ==
  ( /\ Aggregated
    /\ IsCol(df, RequestedY) /\ RequestedY.s \in df.numeric
    /\ LimitIsPositive ) =>
     /\ Len(data) <= limit.n
     /\ Len(data) = Smaller(limit.n, Cardinality(DistinctX))
     /\ DistinctKeys(data)
     /\ KeysOf(data) \subseteq DistinctX
     /\ \A i \in DOMAIN data :
          data[i].value = TotalOver(df.rows, x.s, RequestedY.s, data[i].key)
     /\ InDescendingOrder(data)
     /\ \A v \in DistinctX \ KeysOf(data) :
          \A i \in DOMAIN data :
            data[i].value >= TotalOver(df.rows, x.s, RequestedY.s, v)
     /\ df.rows # <<>> => value_col = RequestedY.s

\* A sum aggregation over three teams cut to the two with the largest sums,
\* the sums all different.
C10_Witness ==
  /\ Aggregated
  /\ RequestedY = PyStr(c_win_by_runs)
  /\ x = PyStr(c_team1)
  /\ value_col = c_win_by_runs
  /\ limit = PyInt(2)
  /\ Cardinality(DistinctX) = 3
  /\ Len(data) = 2
  /\ data[1].value > data[2].value
  /\ \A v \in DistinctX \ KeysOf(data) :
       data[2].value > TotalOver(df.rows, x.s, RequestedY.s, v)
====
